---- MODULE Spec2Model ----
(***************************************************************************)
(* Rope mesh geometry (packages/mesh/src/geometry/RopeGeometry.js) and the *)
(* JSON asset loader (loaders/JsonLoader) as state machines.               *)
(*                                                                         *)
(* Numbers.  A JavaScript number is modelled as a pair <<n, d>>:           *)
(*   d > 0          the rational n/d in lowest terms,                      *)
(*   <<0, 0>>       NaN,                                                   *)
(*   <<1, 0>>, <<-1, 0>>   +Infinity, -Infinity.                           *)
(* Arithmetic on the operands the model draws is exact in binary64 up to   *)
(* an error far below half a binary32 ulp, so a store into a Float32Array  *)
(* is the exact rational rounded to 24 significant bits (Fround).          *)
(***************************************************************************)
EXTENDS Integers, Sequences, FiniteSets, TLC

\* ------------------------------------------------------------------ bounds

\* Longest point sequence of the rope life-cycle specification (Spec).
MaxPoints == 3

\* Longest point sequence of the geometry specification (SpecGeom).
MaxPathLen == 4

\* ----------------------------------------------------------------- numbers

NaN == <<0, 0>>

IsNaN(a) == a = NaN

IsFinite(a) == a[2] > 0

Abs(n) == IF n < 0 THEN -n ELSE n

Sign(n) == IF n < 0 THEN -1 ELSE IF n > 0 THEN 1 ELSE 0

RECURSIVE GCD(_, _)
GCD(a, b) == IF b = 0 THEN a ELSE GCD(b, a % b)

\* n/d in lowest terms, d # 0.
Norm(n, d) ==
    LET g == GCD(Abs(n), Abs(d))
        s == IF d < 0 THEN -1 ELSE 1
    IN  <<(s * n) \div g, (s * d) \div g>>

Num(n) == <<n, 1>>

Neg(a) == <<-a[1], a[2]>>

\* a + b of IEEE 754: NaN if either is NaN or the operands are opposite infinities.
Add(a, b) ==
    IF IsNaN(a) \/ IsNaN(b) THEN NaN
    ELSE IF ~IsFinite(a) /\ ~IsFinite(b) THEN (IF a = b THEN a ELSE NaN)
    ELSE IF ~IsFinite(a) THEN a
    ELSE IF ~IsFinite(b) THEN b
    ELSE LET g == GCD(a[2], b[2])
         IN  Norm(a[1] * (b[2] \div g) + b[1] * (a[2] \div g), (a[2] \div g) * b[2])

Sub(a, b) == Add(a, Neg(b))

\* a * b of IEEE 754: 0 * Infinity is NaN.
Mul(a, b) ==
    IF IsNaN(a) \/ IsNaN(b) THEN NaN
    ELSE IF ~IsFinite(a) \/ ~IsFinite(b)
         THEN (IF a[1] = 0 \/ b[1] = 0 THEN NaN ELSE <<Sign(a[1]) * Sign(b[1]), 0>>)
    ELSE LET g1 == GCD(Abs(a[1]), b[2])
             g2 == GCD(Abs(b[1]), a[2])
         IN  Norm((a[1] \div g1) * (b[1] \div g2), (a[2] \div g2) * (b[2] \div g1))

\* a / b of IEEE 754: 0/0 and Infinity/Infinity are NaN, x/0 is an infinity;
\* JavaScript never throws on a division.
Div(a, b) ==
    IF IsNaN(a) \/ IsNaN(b) THEN NaN
    ELSE IF ~IsFinite(b) THEN (IF IsFinite(a) THEN Num(0) ELSE NaN)
    ELSE IF b[1] = 0
         THEN (IF a[1] = 0 THEN NaN ELSE <<Sign(a[1]), 0>>)
    ELSE Mul(a, <<Sign(b[1]) * b[2], Abs(b[1])>>)

\* a > b of JavaScript: false when either operand is NaN.
Gt(a, b) ==
    /\ ~IsNaN(a)
    /\ ~IsNaN(b)
    /\ LET s == Sub(a, b) IN ~IsNaN(s) /\ s[1] > 0

\* The least r >= lo with r * r >= n.
RECURSIVE RootFrom(_, _)
RootFrom(n, lo) == IF lo * lo >= n THEN lo ELSE RootFrom(n, lo + 1)

\* Math.sqrt of an integer: exact on a perfect square.  The squared lengths
\* the point universe produces are all perfect squares (the universe is an
\* integral point set); any other finite operand has no exact model here.
Sqrt(a) ==
    IF IsNaN(a) \/ a[1] < 0 THEN NaN
    ELSE IF ~IsFinite(a) THEN a
    ELSE LET r == RootFrom(a[1], 0)
         IN  CHOOSE q \in {Num(r)} : a[2] = 1 /\ r * r = a[1]

\* Scale n/d by 2^e until it lies in [2^23, 2^24): the 24-bit significand.
RECURSIVE Significand(_, _, _)
Significand(n, d, e) ==
    IF n \div d >= 2^23 THEN <<n, d, e>>
    ELSE IF d % 2 = 0 THEN Significand(n, d \div 2, e + 1)
    ELSE Significand(2 * n, d, e + 1)

\* Round half to even of n/d, n >= 0, d > 0.
RoundHalfEven(n, d) ==
    LET q == n \div d
        r == n % d
    IN  IF 2 * r < d THEN q
        ELSE IF 2 * r > d THEN q + 1
        ELSE IF q % 2 = 0 THEN q ELSE q + 1

\* Math.fround: the value a Float32Array element holds after a store of a.
\* (Magnitudes stay within [2^-7, 2^24), far from subnormals and overflow.)
Fround(a) ==
    IF ~IsFinite(a) \/ a[1] = 0 THEN a
    ELSE LET s == Significand(Abs(a[1]), a[2], 0)
             m == RoundHalfEven(s[1], s[2])
         IN  Norm(Sign(a[1]) * m, 2^(s[3]))

\* ------------------------------------------------------------- rope: data

\* A point of the caller's sequence.
Pt(x, y) == [x |-> x, y |-> y]

\* The points the caller draws from: an integral point set (every pairwise
\* distance is an integer), holding the horizontal, evenly spaced path
\* (0,0), (10,0), (20,0) and one point off that line.
PointUniverse == {Pt(0, 0), Pt(10, 0), Pt(20, 0), Pt(10, 24)}

\* The points of the life-cycle specification.
LifeUniverse == {Pt(0, 0), Pt(10, 24)}

RECURSIVE SeqsUpTo(_, _)
SeqsUpTo(S, n) ==
    IF n = 0 THEN {<<>>}
    ELSE LET shorter == SeqsUpTo(S, n - 1)
         IN  shorter \cup {Append(q, e) : q \in {r \in shorter : Len(r) = n - 1}, e \in S}

\* The point sequences of the geometry and of the life-cycle specification.
GeomPaths == SeqsUpTo(PointUniverse, MaxPathLen)

LifePaths == SeqsUpTo(LifeUniverse, MaxPoints)

\* The longest point sequence of any specification.
MaxTotal == IF MaxPathLen > MaxPoints THEN MaxPathLen ELSE MaxPoints

Heights == {6, 10}

Multipliers == {"id", "trim"}

\* A texture as the rope reads it: uvs is "texture._uvs is set", height is
\* texture.height, mul names the UV transform multiplyUvs applies.
Textures == [uvs : BOOLEAN, height : Heights, mul : Multipliers]

\* The textures of the life-cycle specification.
LifeTextures == {t \in Textures : t.height = 10 /\ (t.uvs \/ t.mul = "id")}

\* new Float32Array(n) / new Uint16Array(n): zero-filled.
Float32Array(n) == [k \in 1..n |-> Num(0)]

Uint16Array(n) == [k \in 1..n |-> 0]

\* buf[k + j] = vals[j] for the consecutive binary32 values vals, in order, on
\* a Float32Array; a store past the end of a typed array is silently dropped.
StoreF32(buf, k, vals) ==
    [j \in 1..Len(buf) |-> IF j - k \in 1..Len(vals) THEN vals[j - k] ELSE buf[j]]

\* The same on a Uint16Array: each value is taken modulo 2^16.
StoreU16(buf, k, vals) ==
    [j \in 1..Len(buf) |->
        IF j - k \in 1..Len(vals) THEN vals[j - k] % (2^16) ELSE buf[j]]

\* The geometry of a rope while one call runs: the three buffers, the events
\* of the call so far (<<kind, what, index>>), and whether a division of the
\* call had a zero denominator.
Geometry(v, uv, ix) == [v |-> v, uv |-> uv, ix |-> ix, trace |-> <<>>, dz |-> FALSE]

Ev(g, kind, what, k) == [g EXCEPT !.trace = Append(@, <<kind, what, k>>)]

\* The events of the stores of n consecutive elements from index k on.
Writes(what, k, n) == [j \in 1..n |-> <<"w", what, k + j - 1>>]

WriteV(g, k, vals) ==
    [g EXCEPT !.v = StoreF32(@, k, vals), !.trace = @ \o Writes("v", k, Len(vals))]

WriteUV(g, k, vals) ==
    [g EXCEPT !.uv = StoreF32(@, k, vals), !.trace = @ \o Writes("uv", k, Len(vals))]

WriteIx(g, k, vals) ==
    [g EXCEPT !.ix = StoreU16(@, k, vals), !.trace = @ \o Writes("ix", k, Len(vals))]

\* A division whose denominator is zero was evaluated.
Divided(g, denom) == [g EXCEPT !.dz = @ \/ denom = Num(0)]

\* ------------------------------------------------- rope: refreshVertices

\* The taper ratio of point i, computed and never used.
Ratio(i, total) ==
    LET ratio == Mul(Sub(Num(1), Div(Num(i), Num(total - 1))), Num(10))
    IN  IF Gt(ratio, Num(1)) THEN Num(1) ELSE ratio

\* PointVertices with the whole texture height as the half-width.
PointVerticesFullHeight(point, lastPoint, nextPoint, height) ==
    LET perpY0 == Neg(Sub(Num(nextPoint.x), Num(lastPoint.x)))
        perpX0 == Sub(Num(nextPoint.y), Num(lastPoint.y))
        perpLength == Sqrt(Add(Mul(perpX0, perpX0), Mul(perpY0, perpY0)))
        num == Num(height)
        perpX == Mul(Div(perpX0, perpLength), num)
        perpY == Mul(Div(perpY0, perpLength), num)
    IN  [perpLength |-> perpLength,
         vals |-> <<Fround(Add(Num(point.x), perpX)),
                    Fround(Add(Num(point.y), perpY)),
                    Fround(Sub(Num(point.x), perpX)),
                    Fround(Sub(Num(point.y), perpY))>>]

\* One pass of the loop body for a point with its neighbours: the length of
\* the normal and the four values as the Float32Array holds them.
PointVertices(point, lastPoint, nextPoint, height) ==
    LET perpY0 == Neg(Sub(Num(nextPoint.x), Num(lastPoint.x)))
        perpX0 == Sub(Num(nextPoint.y), Num(lastPoint.y))
        perpLength == Sqrt(Add(Mul(perpX0, perpX0), Mul(perpY0, perpY0)))
        num == Div(Num(height), Num(2))
        perpX == Mul(Div(perpX0, perpLength), num)
        perpY == Mul(Div(perpY0, perpLength), num)
    IN  [perpLength |-> perpLength,
         vals |-> <<Fround(Add(Num(point.x), perpX)),
                    Fround(Add(Num(point.y), perpY)),
                    Fround(Sub(Num(point.x), perpX)),
                    Fround(Sub(Num(point.y), perpY))>>]

\* PointVertices, evaluated once per argument.
PointVerticesOf ==
    [point \in PointUniverse, lastPoint \in PointUniverse,
     nextPoint \in PointUniverse, height \in Heights |->
        PointVertices(point, lastPoint, nextPoint, height)]

\* VertexLoop that takes the direction from the point itself to the next point.
RECURSIVE VertexLoopForward(_, _, _, _, _)
VertexLoopForward(g, pts, tex, i, lastPoint) ==
    LET total == Len(pts)
    IN  IF ~(i < total) THEN g
        ELSE LET point == pts[i + 1]
                 nextPoint == IF i < Len(pts) - 1 THEN pts[i + 2] ELSE point
                 pv == PointVerticesOf[point, point, nextPoint, tex.height]
                 g0 == Divided(Divided(g, Num(total - 1)), pv.perpLength)
             IN  VertexLoopForward(WriteV(g0, i * 4, pv.vals), pts, tex, i + 1, point)

\* The loop of refreshVertices from point i on; lastPoint is the point before.
RECURSIVE VertexLoop(_, _, _, _, _)
VertexLoop(g, pts, tex, i, lastPoint) ==
    LET total == Len(pts)
    IN  IF ~(i < total) THEN g
        ELSE LET point == pts[i + 1]
                 index == i * 4
                 nextPoint == IF i < Len(pts) - 1 THEN pts[i + 2] ELSE point
                 pv == PointVerticesOf[point, lastPoint, nextPoint, tex.height]
                 g0 == Divided(Divided(g, Num(total - 1)), pv.perpLength)
                 g1 == WriteV(g0, index, pv.vals)
             IN  VertexLoop(g1, pts, tex, i + 1, point)

\* refreshVertices that signals the vertex buffer even without points.
refreshVerticesAlwaysSignalling(g, pts, tex) ==
    LET g0 == Ev(g, "call", "refreshVertices", 0)
    IN  Ev(IF Len(pts) < 1 THEN g0 ELSE VertexLoop(g0, pts, tex, 0, pts[1]),
           "upd", "v", 0)

\* Rope.refreshVertices
refreshVertices(g, pts, tex) ==
    LET g0 == Ev(g, "call", "refreshVertices", 0)
    IN  IF Len(pts) < 1 THEN g0
        ELSE Ev(VertexLoop(g0, pts, tex, 0, pts[1]), "upd", "v", 0)

\* -------------------------------------------------------- rope: _refresh

\* The three new typed arrays of a size change.
Reallocate(g, n) ==
    [g EXCEPT !.v = Float32Array(n * 4),
              !.uv = Float32Array(n * 4),
              !.ix = Uint16Array(n * 2),
              !.trace = @ \o <<<<"alloc", "v", 0>>, <<"alloc", "uv", 0>>, <<"alloc", "ix", 0>>>>]

\* SizeChanged that sees only a growth of the point sequence.
SizeChangedGrowOnly(g, pts) == Len(g.v) < 4 * Len(pts)

\* vertexBuffer.data.length / 4 !== points.length
SizeChanged(g, pts) == Div(Num(Len(g.v)), Num(4)) # Num(Len(pts))

\* uvs[0..3] and indices[0..1] of the first point.
FirstPoint(g) ==
    WriteIx(WriteUV(g, 0, <<Num(0), Num(0), Num(0), Num(1)>>), 0, <<0, 1>>)

\* Amount normalised by total instead of total - 1.
AmountOverTotal(i, total) == Fround(Div(Num(i), Num(total)))

\* amount of point i as the Float32Array holds it.
Amount(i, total) == Fround(Div(Num(i), Num(total - 1)))

\* Amount, evaluated once per argument.
AmountOf == [i \in 1..MaxTotal, total \in 2..(MaxTotal + 1) |-> Amount(i, total)]

RECURSIVE UvLoop(_, _, _)
UvLoop(g, total, i) ==
    IF ~(i < total) THEN g
    ELSE LET index == i * 4
             amount == AmountOf[i, total]
             g0 == Divided(g, Num(total - 1))
             g1 == WriteUV(g0, index, <<amount, Num(0), amount, Num(1)>>)
             index2 == i * 2
             g2 == WriteIx(g1, index2, <<index2, index2 + 1>>)
         IN  UvLoop(g2, total, i + 1)

\* ----------------------------------------------------- rope: multiplyUvs

\* The UV transform of a texture: (u, v) -> (a*u + tx, d*v + ty).
UvMatrix(mul) ==
    IF mul = "id"
    THEN [a |-> Num(1), d |-> Num(1), tx |-> Num(0), ty |-> Num(0)]
    ELSE [a |-> <<1, 2>>, d |-> <<1, 2>>, tx |-> <<1, 4>>, ty |-> <<1, 4>>]

\* One UV pair through the transform, as the Float32Array holds it.
MultiplyPair(x, y, mul) ==
    LET m == UvMatrix(mul)
    IN  <<Fround(Add(Mul(x, m.a), m.tx)), Fround(Add(Mul(y, m.d), m.ty))>>

\* The values _refresh writes to the UV buffer.
FreshUvs == {Num(0), Num(1)} \cup {AmountOf[a] : a \in DOMAIN AmountOf}

\* MultiplyPair, evaluated once per argument on the values _refresh writes.
MultiplyPairOf ==
    [x \in FreshUvs, y \in FreshUvs, mul \in Multipliers |-> MultiplyPair(x, y, mul)]

RECURSIVE MultiplyLoop(_, _, _)
MultiplyLoop(g, mul, k) ==
    IF ~(k < Len(g.uv)) THEN g
    ELSE LET x == g.uv[k + 1]
             y == g.uv[k + 2]
             xy == IF x \in FreshUvs /\ y \in FreshUvs
                   THEN MultiplyPairOf[x, y, mul]
                   ELSE MultiplyPair(x, y, mul)
         IN  MultiplyLoop(WriteUV(g, k, xy), mul, k + 2)

\* Mesh2d.multiplyUvs: the texture's UV transform applied in place to the UV buffer.
multiplyUvs(g, tex) ==
    MultiplyLoop(Ev(g, "call", "multiplyUvs", 0), tex.mul, 0)

\* _refresh without the test of texture._uvs.
_refreshIgnoringUvs(g, pts, tex) ==
    LET g0 == Ev(g, "call", "_refresh", 0)
    IN  IF Len(pts) < 1 THEN g0
        ELSE LET g1 == IF SizeChanged(g0, pts) THEN Reallocate(g0, Len(pts)) ELSE g0
                 g2 == UvLoop(FirstPoint(g1), Len(pts), 1)
                 g3 == Ev(Ev(g2, "upd", "uv", 0), "upd", "ix", 0)
             IN  refreshVertices(multiplyUvs(g3, tex), pts, tex)

\* _refresh that rebuilds the UVs and indices only after a size change.
_refreshKeepingUvs(g, pts, tex) ==
    LET g0 == Ev(g, "call", "_refresh", 0)
    IN  IF Len(pts) < 1 \/ ~tex.uvs THEN g0
        ELSE LET g1 == IF SizeChanged(g0, pts) THEN Reallocate(g0, Len(pts)) ELSE g0
                 g2 == IF SizeChanged(g0, pts) THEN UvLoop(FirstPoint(g1), Len(pts), 1) ELSE g1
                 g3 == Ev(Ev(g2, "upd", "uv", 0), "upd", "ix", 0)
             IN  refreshVertices(multiplyUvs(g3, tex), pts, tex)

\* Rope._refresh with this.points set.
_refresh(g, pts, tex) ==
    LET g0 == Ev(g, "call", "_refresh", 0)
    IN  IF Len(pts) < 1 \/ ~tex.uvs THEN g0
        ELSE LET g1 == IF SizeChanged(g0, pts) THEN Reallocate(g0, Len(pts)) ELSE g0
                 g2 == UvLoop(FirstPoint(g1), Len(pts), 1)
                 g3 == Ev(Ev(g2, "upd", "uv", 0), "upd", "ix", 0)
             IN  refreshVertices(multiplyUvs(g3, tex), pts, tex)

\* Mesh2d.refresh, which the constructor calls: runs _refresh.
refresh(g, pts, tex) == _refresh(g, pts, tex)

\* The constructor with a UV buffer of two elements per point.
RopeConstructorShortUvs(tex, pts) ==
    refresh(Geometry(Float32Array(Len(pts) * 4),
                     Float32Array(Len(pts) * 2),
                     Uint16Array(Len(pts) * 2)), pts, tex)

\* The constructor that builds the UVs whether or not the texture is ready.
RopeConstructorEager(tex, pts) ==
    refresh(Geometry(Float32Array(Len(pts) * 4),
                     Float32Array(Len(pts) * 4),
                     Uint16Array(Len(pts) * 2)), pts, [tex EXCEPT !.uvs = TRUE])

\* new Rope(texture, points): the buffers the constructor hands to Mesh2d,
\* then this.points = points and this.refresh().
RopeConstructor(tex, pts) ==
    refresh(Geometry(Float32Array(Len(pts) * 4),
                     Float32Array(Len(pts) * 4),
                     Uint16Array(Len(pts) * 2)), pts, tex)

\* updateTransform that refreshes the vertices whatever autoUpdate is.
updateTransformAlways(g, pts, tex, auto) ==
    LET g0 == Ev(g, "call", "updateTransform", 0)
        g1 == refreshVertices(g0, pts, tex)
    IN  Ev(g1, "call", "containerUpdateTransform", 0)

\* Rope.updateTransform
updateTransform(g, pts, tex, auto) ==
    LET g0 == Ev(g, "call", "updateTransform", 0)
        g1 == IF auto THEN refreshVertices(g0, pts, tex) ELSE g0
    IN  Ev(g1, "call", "containerUpdateTransform", 0)

\* ------------------------------------------------------------ rope: state

VARIABLES
    phase,       \* "new" before the constructor has run, "ready" after
    points,      \* this.points
    texture,     \* this.texture
    vertices,    \* aVertexPosition buffer data
    uvs,         \* aTextureCoord buffer data
    indices,     \* index buffer data
    autoUpdate,  \* this.autoUpdate
    lastOp,      \* the operation of the last step
    trace,       \* the events of the last call
    divZero,     \* the last call divided by zero
    retry        \* "deferred": constructed with points before the texture was
                 \* ready; "ready": the texture has become ready since;
                 \* "done": _refresh has run since; "none" otherwise

ropeVars == <<phase, points, texture, vertices, uvs, indices, autoUpdate,
              lastOp, trace, divZero, retry>>

\* ---------------------------------------------------------- loader: state

VARIABLES
    env,          \* xdr: window.XDomainRequest && crossorigin; http: the page is served over http
    req,          \* the ajaxRequest of the JSON loader ("json") and of its atlas loader ("atlas")
    events,       \* the event types dispatched so far on each of the two loaders
    loaded,       \* this.loaded of each of the two loaders
    json,         \* what this.json of the JSON loader describes, "none" before it is parsed
    image,        \* the ImageLoader of a sprite sheet
    animCache,    \* AnimCache[url] is set
    spine,        \* originalLoader.spine is set
    loadingCount, \* textureLoader.loadingCount
    texFailed,    \* base textures of the atlas that failed to load
    listening,    \* the 'loadedBaseTexture' listener is registered
    cacheHit,     \* onJSONLoaded found AnimCache[url] set
    failed,       \* some step of the loading has failed
    frameData,    \* this.json.frames of a sprite sheet
    baseTexture,  \* this.texture: the base texture of the sheet's image
    textureCache  \* core.utils.TextureCache

loaderVars == <<env, req, events, loaded, json, image, animCache, spine,
                loadingCount, texFailed, listening, cacheHit, failed,
                frameData, baseTexture, textureCache>>

vars == <<ropeVars, loaderVars>>

Current == Geometry(vertices, uvs, indices)

\* The state after a call that ended with geometry g.
Becomes(g, op) ==
    /\ vertices' = g.v
    /\ uvs' = g.uv
    /\ indices' = g.ix
    /\ trace' = g.trace
    /\ divZero' = g.dz
    /\ lastOp' = op

RopeInit(texs, autos) ==
    /\ phase = "new"
    /\ points = <<>>
    /\ texture \in texs
    /\ vertices = <<>>
    /\ uvs = <<>>
    /\ indices = <<>>
    /\ autoUpdate \in autos
    /\ lastOp = "none"
    /\ trace = <<>>
    /\ divZero = FALSE
    /\ retry = "none"

Construct(paths) ==
    /\ phase = "new"
    /\ \E pts \in paths :
          /\ points' = pts
          /\ Becomes(RopeConstructor(texture, pts), "construct")
          /\ retry' = IF ~texture.uvs /\ Len(pts) >= 1 THEN "deferred" ELSE "none"
    /\ phase' = "ready"
    /\ UNCHANGED <<texture, autoUpdate>>
    /\ UNCHANGED loaderVars

\* The point sequences one step of the caller away from pts: a point pushed
\* (up to maxLen points), the last point popped, or one point moved.
Edits(pts, universe, maxLen) ==
    {Append(pts, p) : p \in {q \in universe : Len(pts) < maxLen}}
    \cup (IF Len(pts) > 0 THEN {SubSeq(pts, 1, Len(pts) - 1)} ELSE {})
    \cup {[pts EXCEPT ![k] = p] : k \in 1..Len(pts), p \in universe}

\* The caller adds, removes or moves a point of the shared sequence.
SetPoints(universe, maxLen) ==
    /\ phase = "ready"
    /\ \E pts \in Edits(points, universe, maxLen) :
          /\ pts # points
          /\ points' = pts
    /\ lastOp' = "setPoints"
    /\ trace' = <<>>
    /\ divZero' = FALSE
    /\ retry' = "none"
    /\ UNCHANGED <<phase, texture, vertices, uvs, indices, autoUpdate>>
    /\ UNCHANGED loaderVars

\* The caller swaps the texture, or the texture's UV metadata becomes ready.
SetTexture(texs) ==
    /\ phase = "ready"
    /\ \E tex \in texs :
          /\ tex # texture
          /\ texture' = tex
    /\ lastOp' = "setTexture"
    /\ trace' = <<>>
    /\ divZero' = FALSE
    /\ retry' = "none"
    /\ UNCHANGED <<phase, points, vertices, uvs, indices, autoUpdate>>
    /\ UNCHANGED loaderVars

SetAutoUpdate ==
    /\ phase = "ready"
    /\ autoUpdate' = ~autoUpdate
    /\ lastOp' = "setAutoUpdate"
    /\ trace' = <<>>
    /\ divZero' = FALSE
    /\ UNCHANGED <<phase, points, texture, vertices, uvs, indices, retry>>
    /\ UNCHANGED loaderVars

FullRefresh ==
    /\ phase = "ready"
    /\ Becomes(_refresh(Current, points, texture), "_refresh")
    /\ retry' = IF retry = "ready" THEN "done" ELSE retry
    /\ UNCHANGED <<phase, points, texture, autoUpdate>>
    /\ UNCHANGED loaderVars

RefreshVertices ==
    /\ phase = "ready"
    /\ Becomes(refreshVertices(Current, points, texture), "refreshVertices")
    /\ UNCHANGED <<phase, points, texture, autoUpdate, retry>>
    /\ UNCHANGED loaderVars

UpdateTransform ==
    /\ phase = "ready"
    /\ Becomes(updateTransform(Current, points, texture, autoUpdate), "updateTransform")
    /\ UNCHANGED <<phase, points, texture, autoUpdate, retry>>
    /\ UNCHANGED loaderVars

\* The texture's UV metadata becomes ready.
TextureReady ==
    /\ phase = "ready"
    /\ ~texture.uvs
    /\ texture' = [texture EXCEPT !.uvs = TRUE]
    /\ lastOp' = "textureReady"
    /\ trace' = <<>>
    /\ divZero' = FALSE
    /\ retry' = IF retry = "deferred" THEN "ready" ELSE "none"
    /\ UNCHANGED <<phase, points, vertices, uvs, indices, autoUpdate>>
    /\ UNCHANGED loaderVars

\* -------------------------------------------------------------- loader

\* The JSON loader the consumer calls load() on, and the atlas loader it
\* creates for a skeleton.
LoaderIds == {"json", "atlas"}

\* What a non-empty response describes: a sprite sheet (json.frames), a
\* skeleton (json.bones), any other JSON; the text of an atlas file.
Texts(id) == IF id = "json" THEN {"sheet", "skeleton", "plain"} ELSE {"atlas"}

\* How a request can end: the status and the responseText.  A page not served
\* over http sees status 0 for every request.
Outcomes(id, http) ==
    IF http
    THEN {[status |-> 200, text |-> t] : t \in Texts(id) \cup {""}}
         \cup {[status |-> 404, text |-> ""], [status |-> 0, text |-> ""]}
    ELSE {[status |-> 0, text |-> t] : t \in Texts(id) \cup {""}}

\* Pages of an atlas whose base texture is still to load.
MaxPages == 2

\* null, and a value that is not there.
null == <<>>

\* new core.math.Rectangle(x, y, w, h)
Rectangle(x, y, w, h) == <<x, y, w, h>>

\* The frame names of a sprite sheet.
FrameNames == {"a", "b"}

\* The entries of json.frames: an untrimmed frame, a trimmed frame whose
\* sourceSize differs from its spriteSourceSize, and an entry without a frame.
FrameEntries ==
    {[frame |-> Rectangle(0, 0, 8, 8), trimmed |-> FALSE,
      sourceSize |-> <<8, 8>>, spriteSourceSize |-> <<0, 0, 8, 8>>],
     [frame |-> Rectangle(8, 0, 4, 6), trimmed |-> TRUE,
      sourceSize |-> <<7, 9>>, spriteSourceSize |-> <<1, 2, 4, 6>>],
     [frame |-> null, trimmed |-> FALSE,
      sourceSize |-> <<8, 8>>, spriteSourceSize |-> <<0, 0, 8, 8>>]}

\* Every json.frames: a mapping from some frame names to entries.
FrameDatas == UNION {[names -> FrameEntries] : names \in SUBSET FrameNames}

\* new core.Texture(baseTexture, frame, crop, trim)
Texture(base, frame, crop, trim) ==
    [baseTexture |-> base, frame |-> frame, crop |-> crop, trim |-> trim]

\* FrameTexture that sizes the trim rect by spriteSourceSize.
FrameTextureTrimmedSize(base, entry) ==
    LET rect == entry.frame
        textureSize == Rectangle(rect[1], rect[2], rect[3], rect[4])
        realSize == entry.spriteSourceSize
        trim == IF entry.trimmed
                THEN Rectangle(realSize[1], realSize[2], realSize[3], realSize[4])
                ELSE null
    IN  Texture(base, textureSize, textureSize, trim)

\* The texture the loop body stores for an entry that has a frame.
FrameTexture(base, entry) ==
    LET rect == entry.frame
        textureSize == Rectangle(rect[1], rect[2], rect[3], rect[4])
        crop == textureSize
        trim == IF entry.trimmed
                THEN LET actualSize == entry.sourceSize
                         realSize == entry.spriteSourceSize
                     IN  Rectangle(realSize[1], realSize[2], actualSize[1], actualSize[2])
                ELSE null
    IN  Texture(base, textureSize, crop, trim)

\* for (var i in frameData): TextureCache[i] is stored for every entry whose
\* frame is set; each name is visited once.
StoreFrames(cache, frames, base) ==
    LET stored == {i \in DOMAIN frames : frames[i].frame # null}
    IN  [i \in DOMAIN cache \cup stored |->
            IF i \in stored THEN FrameTexture(base, frames[i]) ELSE cache[i]]

\* A texture an earlier load has left in the cache.
StaleTexture == Texture("other", Rectangle(0, 0, 2, 2), Rectangle(0, 0, 2, 2), null)

NoRequest == [st |-> "none", readyState |-> 0, status |-> 0, text |-> ""]

\* The loaders' state as one record, for the calls one handler makes.
Loaders ==
    [env |-> env, req |-> req, events |-> events, loaded |-> loaded, json |-> json,
     image |-> image, animCache |-> animCache, spine |-> spine,
     loadingCount |-> loadingCount, texFailed |-> texFailed,
     listening |-> listening, cacheHit |-> cacheHit, failed |-> failed,
     frameData |-> frameData, baseTexture |-> baseTexture,
     textureCache |-> textureCache]

\* The state after a handler that ended with loaders L.
LoadersBecome(L) ==
    /\ env' = L.env
    /\ req' = L.req
    /\ events' = L.events
    /\ loaded' = L.loaded
    /\ json' = L.json
    /\ image' = L.image
    /\ animCache' = L.animCache
    /\ spine' = L.spine
    /\ loadingCount' = L.loadingCount
    /\ texFailed' = L.texFailed
    /\ listening' = L.listening
    /\ cacheHit' = L.cacheHit
    /\ failed' = L.failed
    /\ frameData' = L.frameData
    /\ baseTexture' = L.baseTexture
    /\ textureCache' = L.textureCache

dispatchEvent(L, id, type) == [L EXCEPT !.events[id] = Append(@, type)]

\* onLoaded that dispatches the event and leaves this.loaded as it is.
onLoadedUnflagged(L, id) == dispatchEvent(L, id, "loaded")

\* JsonLoader.prototype.onLoaded
onLoaded(L, id) == dispatchEvent([L EXCEPT !.loaded[id] = TRUE], id, "loaded")

\* JsonLoader.prototype.onError
onError(L, id) == dispatchEvent(L, id, "error")

\* JsonLoader.prototype.load: the request is opened and sent.
load(L, id) ==
    [L EXCEPT !.req[id] = [st |-> "open", readyState |-> 1, status |-> 0, text |-> ""]]

\* textureLoader.loadingCount > 0: the atlas waits for its textures.
WaitsForTextures(count) == count > 0

\* AllTexturesLoaded that takes one texture still loading for none.
AllTexturesLoadedButOne(count) == count <= 1

\* evt.content.content.loadingCount <= 0: the last texture has loaded.
AllTexturesLoaded(count) == count <= 0

\* atlasOnJSONLoaded that signals completion at once and still listens for
\* the textures.
atlasOnJSONLoadedEager(L, pages) ==
    IF L.req["atlas"].text = "" THEN onError(L, "atlas")
    ELSE LET L1 == [L EXCEPT !.animCache = TRUE, !.spine = TRUE, !.loadingCount = pages]
         IN  onLoaded([L1 EXCEPT !.listening = WaitsForTextures(pages)], "json")

\* The onJSONLoaded the JSON loader gives its atlas loader; pages is the number
\* of atlas pages whose base texture is still to load.
atlasOnJSONLoaded(L, pages) ==
    IF L.req["atlas"].text = "" THEN onError(L, "atlas")
    ELSE LET L1 == [L EXCEPT !.animCache = TRUE, !.spine = TRUE, !.loadingCount = pages]
         IN  IF WaitsForTextures(pages)
             THEN [L1 EXCEPT !.listening = TRUE]
             ELSE onLoaded(L1, "json")

\* JsonLoader.prototype.onJSONLoaded; frames is json.frames of a sprite sheet.
onJSONLoaded(L, frames) ==
    IF L.req["json"].text = "" THEN onError(L, "json")
    ELSE LET L1 == [L EXCEPT !.json = L.req["json"].text]
         IN  IF L1.json = "sheet"
             THEN [L1 EXCEPT !.frameData = frames,
                             !.baseTexture = "image",
                             !.textureCache = StoreFrames(@, frames, "image"),
                             !.image = "loading"]
             ELSE IF L1.json = "skeleton"
                  THEN (IF L1.animCache
                        THEN onLoaded([L1 EXCEPT !.cacheHit = TRUE], "json")
                        ELSE load(L1, "atlas"))
             ELSE onLoaded(L1, "json")

\* this.onJSONLoaded() of loader id.
CallOnJSONLoaded(L, id, pages, frames) ==
    IF id = "json" THEN onJSONLoaded(L, frames) ELSE atlasOnJSONLoaded(L, pages)

\* JsonLoader.prototype.onReadyStateChanged
onReadyStateChanged(L, id, pages, frames) ==
    IF L.req[id].readyState = 4 /\ (L.req[id].status = 200 \/ ~L.env.http)
    THEN CallOnJSONLoaded(L, id, pages, frames)
    ELSE L

LoaderInit ==
    /\ env \in [xdr : BOOLEAN, http : BOOLEAN]
    /\ req = [id \in LoaderIds |-> NoRequest]
    /\ events = [id \in LoaderIds |-> <<>>]
    /\ loaded = [id \in LoaderIds |-> FALSE]
    /\ json = "none"
    /\ image = "none"
    /\ animCache \in BOOLEAN
    /\ spine = FALSE
    /\ loadingCount = 0
    /\ texFailed = 0
    /\ listening = FALSE
    /\ cacheHit = FALSE
    /\ failed = FALSE
    /\ frameData = null
    /\ baseTexture = "none"
    /\ textureCache \in {null, [i \in {"a"} |-> StaleTexture]}

\* The loaders of a specification that loads nothing.
LoaderIdle ==
    /\ LoaderInit
    /\ env = [xdr |-> FALSE, http |-> TRUE]
    /\ ~animCache
    /\ textureCache = null

\* The rope of a specification that draws nothing.
RopeIdle ==
    /\ RopeInit(Textures, {FALSE})
    /\ texture = [uvs |-> FALSE, height |-> 10, mul |-> "id"]

\* The consumer calls load() on the JSON loader.
Load ==
    /\ req["json"].st = "none"
    /\ LoadersBecome(load(Loaders, "json"))
    /\ UNCHANGED ropeVars

\* An XMLHttpRequest moves on without completing: onreadystatechange fires.
XhrStateChange(id) ==
    /\ ~env.xdr
    /\ req[id].st = "open"
    /\ req[id].readyState < 3
    /\ LoadersBecome(onReadyStateChanged(
           [Loaders EXCEPT !.req[id].readyState = @ + 1], id, 0, null))
    /\ UNCHANGED ropeVars

\* An XMLHttpRequest completes: readyState 4, onreadystatechange fires.
XhrDone(id) ==
    /\ ~env.xdr
    /\ req[id].st = "open"
    /\ \E o \in Outcomes(id, env.http), pages \in 0..MaxPages, frames \in FrameDatas :
          LoadersBecome(onReadyStateChanged(
              [Loaders EXCEPT !.req[id] = [st |-> "done", readyState |-> 4,
                                           status |-> o.status, text |-> o.text],
                              !.failed = @ \/ o.text = "" \/ (env.http /\ o.status # 200)],
              id, pages, frames))
    /\ UNCHANGED ropeVars

\* An XDomainRequest completes: onload.
XdrLoad(id) ==
    /\ env.xdr
    /\ req[id].st = "open"
    /\ \E t \in Texts(id) \cup {""}, pages \in 0..MaxPages, frames \in FrameDatas :
          LoadersBecome(CallOnJSONLoaded(
              [Loaders EXCEPT !.req[id] = [st |-> "done", readyState |-> 4,
                                           status |-> 200, text |-> t],
                              !.failed = @ \/ t = ""],
              id, pages, frames))
    /\ UNCHANGED ropeVars

\* An XDomainRequest fails: onerror.
XdrError(id) ==
    /\ env.xdr
    /\ req[id].st = "open"
    /\ LoadersBecome(onError(
           [Loaders EXCEPT !.req[id].st = "done", !.failed = TRUE], id))
    /\ UNCHANGED ropeVars

\* An XDomainRequest times out: ontimeout.
XdrTimeout(id) ==
    /\ env.xdr
    /\ req[id].st = "open"
    /\ LoadersBecome(onError(
           [Loaders EXCEPT !.req[id].st = "done", !.req[id].status = 0, !.failed = TRUE], id))
    /\ UNCHANGED ropeVars

\* The sprite sheet's image loads: the ImageLoader dispatches 'loaded'.
ImageLoaded ==
    /\ image = "loading"
    /\ LoadersBecome(onLoaded([Loaders EXCEPT !.image = "loaded"], "json"))
    /\ UNCHANGED ropeVars

\* The sprite sheet's image fails: the ImageLoader dispatches 'error'.
ImageError ==
    /\ image = "loading"
    /\ LoadersBecome(onError([Loaders EXCEPT !.image = "error", !.failed = TRUE], "json"))
    /\ UNCHANGED ropeVars

\* A base texture of the atlas loads: the texture loader counts it and
\* dispatches 'loadedBaseTexture'.
TextureLoaded ==
    /\ loadingCount - texFailed > 0
    /\ LET L1 == [Loaders EXCEPT !.loadingCount = @ - 1]
       IN  LoadersBecome(IF L1.listening /\ AllTexturesLoaded(L1.loadingCount)
                         THEN onLoaded(L1, "json")
                         ELSE L1)
    /\ UNCHANGED ropeVars

\* A base texture of the atlas fails to load: nothing is dispatched.
TextureFailed ==
    /\ loadingCount - texFailed > 0
    /\ texFailed' = texFailed + 1
    /\ UNCHANGED <<env, req, events, loaded, json, image, animCache, spine,
                   loadingCount, listening, cacheHit, failed,
                   frameData, baseTexture, textureCache>>
    /\ UNCHANGED ropeVars

NextLoader ==
    \/ Load
    \/ \E id \in LoaderIds : XhrStateChange(id)
    \/ \E id \in LoaderIds : XhrDone(id)
    \/ \E id \in LoaderIds : XdrLoad(id)
    \/ \E id \in LoaderIds : XdrError(id)
    \/ \E id \in LoaderIds : XdrTimeout(id)
    \/ ImageLoaded
    \/ ImageError
    \/ TextureLoaded
    \/ TextureFailed

InitLoader == RopeIdle /\ LoaderInit

SpecLoader == InitLoader /\ [][NextLoader]_vars

\* --------------------------------------------------------- specifications

\* The life cycle of a rope whose points and texture the caller changes.
Next ==
    \/ Construct(LifePaths)
    \/ SetPoints(LifeUniverse, MaxPoints)
    \/ SetTexture(LifeTextures)
    \/ SetAutoUpdate
    \/ FullRefresh
    \/ RefreshVertices
    \/ UpdateTransform

Init == RopeInit(LifeTextures, BOOLEAN) /\ LoaderIdle

Spec == Init /\ [][Next]_vars

\* The geometry of every path: a rope is constructed and refreshed, its
\* points unchanged.
NextGeom ==
    \/ Construct(GeomPaths)
    \/ TextureReady
    \/ FullRefresh
    \/ RefreshVertices

InitGeom == RopeInit(Textures, {FALSE}) /\ LoaderIdle

SpecGeom == InitGeom /\ [][NextGeom]_vars

\* ----------------------------------------------------------- rope: claims

Range(q) == {q[k] : k \in 1..Len(q)}

N == Len(points)

Sized(n) == Len(vertices) = 4 * n /\ Len(uvs) = 4 * n /\ Len(indices) = 2 * n

\* The last call ran refreshVertices to its end.
VerticesRefreshed == <<"upd", "v", 0>> \in Range(trace)

\* Every element of the buffer `what` of length len was allocated or stored
\* by the last call.
FreshBuffer(what, len) ==
    \/ <<"alloc", what, 0>> \in Range(trace)
    \/ \A k \in 0..(len - 1) : <<"w", what, k>> \in Range(trace)

NoResidue ==
    /\ FreshBuffer("v", Len(vertices))
    /\ FreshBuffer("uv", Len(uvs))
    /\ FreshBuffer("ix", Len(indices))

\* The last call stored nothing, allocated nothing and signalled no update.
NoBufferEvent == \A e \in Range(trace) : e[1] = "call"

\* C1: right after the constructor, whatever the texture's readiness, the
\* vertex, UV and index buffers have lengths 4N, 4N and 2N.
C1_ConstructSizes == lastOp = "construct" => Sized(N)

C1_Witness == lastOp = "construct" /\ N = 3 /\ ~texture.uvs /\ Sized(3)

\* C2 as stated: whenever the buffers are not sized for the current point
\* count, _refresh leaves them sized 4M, 4M, 2M with no element left over.
C2_ResizeAlways ==
    [][(lastOp' = "_refresh" /\ Len(vertices) # 4 * N) => (Sized(N) /\ NoResidue)']_vars

\* C2 amended: whenever the buffers are not sized for the current point
\* count M, M >= 1 and the texture's UV metadata is ready, _refresh leaves the
\* buffers sized 4M, 4M, 2M, every element allocated or stored by that call.
C2_ResizeWhenReady ==
    [][(lastOp' = "_refresh" /\ Len(vertices) # 4 * N /\ N >= 1 /\ texture.uvs)
        => (Sized(N) /\ NoResidue)']_vars

C2_Witness ==
    /\ lastOp = "_refresh"
    /\ <<"alloc", "v", 0>> \in Range(trace)
    /\ N = 1
    /\ Sized(1)

\* C3: with a texture that has no UV metadata, _refresh leaves the three
\* buffers as they were and signals no buffer update.
C3_NotReadyNoOp ==
    [][(lastOp' = "_refresh" /\ ~texture.uvs)
        => (/\ vertices' = vertices
            /\ uvs' = uvs
            /\ indices' = indices
            /\ NoBufferEvent')]_vars

C3_Witness ==
    /\ lastOp = "_refresh"
    /\ ~texture.uvs
    /\ N >= 1
    /\ \E k \in 1..Len(uvs) : uvs[k] # Num(0)

\* C4: with zero or one point, no call of the constructor, _refresh or
\* refreshVertices evaluates a division by zero.
C4_NoDivisionByZero ==
    (lastOp \in {"construct", "_refresh", "refreshVertices"} /\ N <= 1) => ~divZero

\* u of point i of n as a real number: i/(n-1), and 0 for a single point.
ExactU(i, n) == IF n = 1 THEN Num(0) ELSE Div(Num(i), Num(n - 1))

\* The UV buffer holds (u(i), 0), (u(i), 1) for every point i.
UvSamples(u(_)) ==
    \A i \in 0..(N - 1) :
        /\ uvs[4 * i + 1] = u(i)
        /\ uvs[4 * i + 2] = Num(0)
        /\ uvs[4 * i + 3] = u(i)
        /\ uvs[4 * i + 4] = Num(1)

AfterReadyIdentityRefresh ==
    lastOp = "_refresh" /\ texture.uvs /\ texture.mul = "id" /\ N >= 1

\* C5 as stated: after _refresh with a ready texture and the identity
\* multiplier, u of point i is the real number i/(N-1).
C5_ExactUvs ==
    AfterReadyIdentityRefresh => LET u(i) == ExactU(i, N) IN UvSamples(u)

\* C5 amended: u of point i is i/(N-1) rounded to the nearest binary32 value;
\* it is 0 at i = 0, 1 at i = N-1 (N >= 2), and non-decreasing in i.
C5_RoundedUvs ==
    AfterReadyIdentityRefresh =>
        /\ LET u(i) == Fround(ExactU(i, N)) IN UvSamples(u)
        /\ uvs[1] = Num(0)
        /\ N >= 2 => uvs[4 * (N - 1) + 1] = Num(1)
        /\ \A i \in 1..(N - 1) : ~Gt(uvs[4 * (i - 1) + 1], uvs[4 * i + 1])

C5_Witness ==
    /\ AfterReadyIdentityRefresh
    /\ N = 4
    /\ uvs[5] = Fround(<<1, 3>>)
    /\ uvs[5] # <<1, 3>>

\* C6: a second _refresh right after a _refresh leaves the three buffers as
\* the first left them.
C6_Idempotent ==
    [][(lastOp = "_refresh" /\ lastOp' = "_refresh")
        => (vertices' = vertices /\ uvs' = uvs /\ indices' = indices)]_vars

C6_Witness ==
    /\ lastOp = "_refresh"
    /\ texture.uvs
    /\ texture.mul = "trim"
    /\ N >= 2
    /\ Sized(N)
    /\ uvs[4 * (N - 1) + 1] = <<3, 4>>

\* A horizontal path of evenly spaced points, x strictly increasing.
HorizontalEven(pts) ==
    /\ Len(pts) >= 2
    /\ \A i \in 2..Len(pts) :
          /\ pts[i].y = pts[1].y
          /\ pts[i].x > pts[i - 1].x
          /\ pts[i].x - pts[i - 1].x = pts[2].x - pts[1].x

\* C7: on a horizontal, evenly spaced path the two vertices of every point
\* are the point moved by (0, +H/2) and by (0, -H/2), H the texture height.
C7_HorizontalWidth ==
    (VerticesRefreshed /\ HorizontalEven(points) /\ Sized(N)) =>
        \A i \in 0..(N - 1) :
            LET p == points[i + 1]
                x == Num(p.x)
                up == Add(Num(p.y), Div(Num(texture.height), Num(2)))
                down == Sub(Num(p.y), Div(Num(texture.height), Num(2)))
                a == <<vertices[4 * i + 1], vertices[4 * i + 2]>>
                b == <<vertices[4 * i + 3], vertices[4 * i + 4]>>
            IN  {a, b} = {<<x, up>>, <<x, down>>}

C7_Witness ==
    /\ lastOp = "refreshVertices"
    /\ points = <<Pt(0, 0), Pt(10, 0), Pt(20, 0)>>
    /\ texture.height = 10
    /\ vertices = <<Num(0), Num(-5), Num(0), Num(5),
                    Num(10), Num(-5), Num(10), Num(5),
                    Num(20), Num(-5), Num(20), Num(5)>>

\* C8: updateTransform calls refreshVertices exactly when autoUpdate is set,
\* then containerUpdateTransform exactly once, last; with autoUpdate unset it
\* stores nothing and signals nothing.
C8_UpdateTransform ==
    lastOp = "updateTransform" =>
        /\ (<<"call", "refreshVertices", 0>> \in Range(trace)) <=> autoUpdate
        /\ Cardinality({k \in 1..Len(trace) :
                          trace[k] = <<"call", "containerUpdateTransform", 0>>}) = 1
        /\ trace[Len(trace)] = <<"call", "containerUpdateTransform", 0>>
        /\ ~autoUpdate => NoBufferEvent

C8_Witness ==
    /\ lastOp = "updateTransform"
    /\ autoUpdate
    /\ N >= 1
    /\ VerticesRefreshed
    /\ trace[Len(trace)] = <<"call", "containerUpdateTransform", 0>>

\* --------------------------------------------------------- loader: claims

\* No request is open, no image is loading and no texture is still to come.
Quiescent ==
    /\ req["json"].st = "done"
    /\ req["atlas"].st # "open"
    /\ image # "loading"
    /\ loadingCount - texFailed <= 0

\* C9: once a load() whose JSON request, sprite-sheet image or atlas request
\* has failed has nothing left in flight, an 'error' event has been
\* dispatched on the loader the consumer called load() on.
C9_FailureDispatchesError ==
    (Quiescent /\ failed) => "error" \in Range(events["json"])

AtlasComplete ==
    /\ req["atlas"].st = "done"
    /\ req["atlas"].text # ""
    /\ loadingCount <= 0

\* C10 as stated: a skeleton description has its atlas loaded, and 'loaded'
\* is not dispatched on the JSON loader before the atlas and its textures
\* are complete.
C10_LoadedAfterAtlas ==
    (json = "skeleton") =>
        /\ req["atlas"].st # "none"
        /\ "loaded" \in Range(events["json"]) => AtlasComplete

\* C10 amended: a skeleton description whose url is not in the animation
\* cache when its JSON arrives has its atlas loaded, and 'loaded' is not
\* dispatched on the JSON loader before the atlas and its textures are complete.
C10_LoadedAfterAtlasUnlessCached ==
    (json = "skeleton" /\ ~cacheHit) =>
        /\ req["atlas"].st # "none"
        /\ "loaded" \in Range(events["json"]) => AtlasComplete

C10_Witness ==
    /\ json = "skeleton"
    /\ ~cacheHit
    /\ listening
    /\ "loaded" \in Range(events["json"])
    /\ AtlasComplete

\* The texture region the frame mapping describes for an entry: on the sheet's
\* base image, source and crop rect the entry's frame rect, trim rect
\* (spriteSourceSize.x, spriteSourceSize.y, sourceSize.w, sourceSize.h) if
\* the entry is trimmed and none otherwise.
RegionOf(entry) ==
    Texture(baseTexture, entry.frame, entry.frame,
            IF entry.trimmed
            THEN <<entry.spriteSourceSize[1], entry.spriteSourceSize[2],
                   entry.sourceSize[1], entry.sourceSize[2]>>
            ELSE null)

SheetProcessed == json = "sheet"

\* C11 as stated: once a sprite sheet is processed, the texture cache holds
\* under the name of every entry of the frame mapping the texture region of
\* that entry.
C11_EveryEntryStored ==
    SheetProcessed =>
        \A i \in DOMAIN frameData :
            /\ i \in DOMAIN textureCache
            /\ textureCache[i] = RegionOf(frameData[i])

\* C11 amended: once a sprite sheet is processed, the texture cache holds
\* under the name of every entry that has a frame rect the texture region of
\* that entry; for an entry without a frame rect no texture on the sheet's
\* image is stored.
C11_EveryFramedEntryStored ==
    SheetProcessed =>
        \A i \in DOMAIN frameData :
            IF frameData[i].frame # null
            THEN /\ i \in DOMAIN textureCache
                 /\ textureCache[i] = RegionOf(frameData[i])
            ELSE i \in DOMAIN textureCache => textureCache[i] = StaleTexture

C11_Witness ==
    /\ SheetProcessed
    /\ DOMAIN frameData = {"a", "b"}
    /\ frameData["a"].trimmed
    /\ ~frameData["b"].trimmed /\ frameData["b"].frame # null
    /\ textureCache["a"] = Texture("image", <<8, 0, 4, 6>>, <<8, 0, 4, 6>>, <<1, 2, 7, 9>>)
    /\ textureCache["b"] = Texture("image", <<0, 0, 8, 8>>, <<0, 0, 8, 8>>, null)

\* The buffer an event is about.
BufferOf(what) == IF what = "v" THEN vertices ELSE IF what = "uv" THEN uvs ELSE indices

\* The length the buffer `what` has when it matches n points.
MatchingLength(what, n) == IF what = "ix" THEN 2 * n ELSE 4 * n

\* C12: every store of a call goes to a buffer whose length matches the
\* current point count (4N for vertices and UVs, 2N for indices) and to an
\* index inside that buffer.
C12_WritesMatchPointCount ==
    \A e \in Range(trace) :
        e[1] = "w" =>
            /\ Len(BufferOf(e[2])) = MatchingLength(e[2], N)
            /\ e[3] < Len(BufferOf(e[2]))

\* C13: within one call, every store to a buffer is followed by the update
\* signal of that buffer; no store to the UV buffer, the UV multiplier's
\* included, comes after the UV buffer's update signal.
C13_UpdateAfterLastWrite ==
    \A j \in 1..Len(trace) :
        trace[j][1] = "w" =>
            \E k \in (j + 1)..Len(trace) : trace[k] = <<"upd", trace[j][2], 0>>

\* The buffers the last call signalled an update of.
Signalled == {e[2] : e \in {f \in Range(trace) : f[1] = "upd"}}

\* C14: refreshVertices, alone or from updateTransform, leaves the UV
\* buffer, the index buffer and the three lengths as they were and signals
\* the vertex buffer only; without points it stores and signals nothing; the
\* lengths change only in the constructor and in _refresh.
C14_VerticesOnly ==
    [][/\ lastOp' \in {"refreshVertices", "updateTransform"} =>
            /\ uvs' = uvs
            /\ indices' = indices
            /\ Len(vertices') = Len(vertices)
            /\ Signalled' \subseteq {"v"}
            /\ (lastOp' = "refreshVertices" /\ N >= 1) => Signalled' = {"v"}
            /\ N = 0 => (NoBufferEvent' /\ vertices' = vertices)
       /\ <<Len(vertices'), Len(uvs'), Len(indices')>>
                # <<Len(vertices), Len(uvs), Len(indices)>>
            => lastOp' \in {"construct", "_refresh"}]_vars

C14_Witness ==
    /\ lastOp = "refreshVertices"
    /\ N = 2
    /\ Sized(1)
    /\ uvs[4] = Num(1)
    /\ Signalled = {"v"}
    /\ vertices # Float32Array(4)

Min(a, b) == IF a < b THEN a ELSE b

Max(a, b) == IF a > b THEN a ELSE b

\* The differences of two points.
Directions == {[x |-> a.x - b.x, y |-> a.y - b.y] : a, b \in PointUniverse}

\* The two vertices of point p for direction d and texture height h: p plus
\* and p minus the normal (d.y, -d.x) scaled to length h/2, as binary32 values.
RibbonEdge(p, d, h) ==
    LET nx == Num(d.y)
        ny == Neg(Num(d.x))
        length == Sqrt(Add(Mul(nx, nx), Mul(ny, ny)))
        sx == Mul(Div(nx, length), Div(Num(h), Num(2)))
        sy == Mul(Div(ny, length), Div(Num(h), Num(2)))
    IN  <<Fround(Add(Num(p.x), sx)), Fround(Add(Num(p.y), sy)),
          Fround(Sub(Num(p.x), sx)), Fround(Sub(Num(p.y), sy))>>

RibbonEdgeOf ==
    [p \in PointUniverse, d \in Directions, h \in Heights |-> RibbonEdge(p, d, h)]

\* d_i = p[min(i+1, N-1)] - p[max(i-1, 0)] of the current points.
Direction(i) ==
    LET next == points[Min(i + 1, N - 1) + 1]
        last == points[Max(i - 1, 0) + 1]
    IN  [x |-> next.x - last.x, y |-> next.y - last.y]

\* C15: after refreshVertices the vertex buffer holds, for every point i it
\* has room for, p_i plus and p_i minus the normal (d_i.y, -d_i.x) scaled to
\* half the texture height, d_i = p[min(i+1, N-1)] - p[max(i-1, 0)] of the
\* points current at the call.
C15_CentralDirection ==
    VerticesRefreshed =>
        \A i \in 0..(N - 1) :
            4 * i + 4 <= Len(vertices) =>
                <<vertices[4 * i + 1], vertices[4 * i + 2],
                  vertices[4 * i + 3], vertices[4 * i + 4]>>
                    = RibbonEdgeOf[points[i + 1], Direction(i), texture.height]

C15_Witness ==
    /\ lastOp = "refreshVertices"
    /\ points = <<Pt(0, 0), Pt(10, 24), Pt(10, 24)>>
    /\ Sized(3)
    /\ vertices[5] = Fround(<<190, 13>>)
    /\ vertices[6] = Fround(<<287, 13>>)
    /\ vertices[7] = Fround(<<70, 13>>)
    /\ IsNaN(vertices[9])

TerminalEvents == {"loaded", "error"}

\* The terminal events dispatched so far on loader id, in order.
Terminal(id) == SelectSeq(events[id], LAMBDA type : type \in TerminalEvents)

\* C16: whatever the interleaving of request, image, atlas and texture
\* callbacks, a loader dispatches at most one terminal event after its
\* load(): 'loaded' or 'error', not both and neither twice.
C16_OneTerminalEvent == \A id \in LoaderIds : Len(Terminal(id)) <= 1

C16_Witness ==
    /\ json = "skeleton"
    /\ req["atlas"].st = "done"
    /\ listening
    /\ texFailed = 0
    /\ loadingCount = 0
    /\ Terminal("json") = <<"loaded">>
    /\ Terminal("atlas") = <<>>

\* The buffers of a rope constructed with the current points and texture.
Constructed == RopeConstructor(texture, points)

\* C17: a rope constructed with N >= 1 points before its texture was ready
\* has no UV and no index written until the texture is ready and _refresh
\* runs; after that _refresh its three buffers equal those of a rope
\* constructed with the same points and the ready texture.
C17_IdempotentRetry ==
    /\ retry \in {"deferred", "ready"} =>
            /\ uvs = Float32Array(4 * N)
            /\ indices = Uint16Array(2 * N)
            /\ \A e \in Range(trace) : e[1] = "w" => e[2] = "v"
    /\ retry = "done" =>
            /\ texture.uvs
            /\ vertices = Constructed.v
            /\ uvs = Constructed.uv
            /\ indices = Constructed.ix

C17_Witness ==
    /\ retry = "done"
    /\ lastOp = "_refresh"
    /\ N = 3
    /\ texture.mul = "trim"
    /\ uvs[9] = <<3, 4>>
    /\ indices = <<0, 1, 2, 3, 4, 5>>

\* 'loaded' has been dispatched on loader id.
LoadedDispatched(id) == "loaded" \in Range(events[id])

\* C18: once 'loaded' has been dispatched on a loader whose JSON is a
\* skeleton description, the skeleton data is in the animation cache under
\* the loader's url and on the loader itself, also when the cache held it
\* before the load.
C18_SpineOnLoader ==
    (json = "skeleton" /\ LoadedDispatched("json")) => (animCache /\ spine)

\* C19: on every loader, this.loaded is set exactly when 'loaded' has been
\* dispatched on it; an 'error' does not set it.
C19_LoadedFlag == \A id \in LoaderIds : loaded[id] <=> LoadedDispatched(id)

C19_Witness ==
    /\ json = "sheet"
    /\ image = "loaded"
    /\ loaded["json"]
    /\ events["json"] = <<"loaded">>
    /\ ~loaded["atlas"]

====
